---------------------------- MODULE Spec2Model ----------------------------
(***************************************************************************)
(* Verification model of the Networking_training framework:                *)
(*   - Net::Message          (Network_framework/Source/Message/Message.h)  *)
(*   - Net::Net_user         (Network_framework/Source/Net_user/Net_user.h)*)
(*   - Thread_safe_deque     (Networking/Utility/Thread_safe_deque.h)      *)
(*                                                                         *)
(* Each component has its own specification over the shared variables; the *)
(* variables of the other components keep their initial values.            *)
(***************************************************************************)
EXTENDS Integers, Sequences, FiniteSets, TLC

VARIABLES
    m_body,       \* Message::m_body, the body bytes
    m_size,       \* Message::m_header.m_size
    last,         \* the last Message operation: its arguments, result and the message before it
    rt_vals,      \* round-trip script: the values to push, in order
    rt_base,      \* round-trip script: the body before the first push
    rt_pc,        \* round-trip script: "push", "extract", "done" or "failed" ("idle": no script)
    rt_i,         \* round-trip script: number of pushes / extracts done in the current phase
    rt_out,       \* round-trip script: the values extracted so far, in extraction order
    m_in_queue,   \* Net_user::m_in_queue, front first
    in_pushed,    \* every message given to in_queue_push_back, in call order
    in_popped,    \* every message returned by in_queue_pop_front, in call order
    m_thread_handle,          \* Net_user::m_thread_handle: the thread it holds, 0 when not joinable
    m_asio_thread_stop_flag,  \* Net_user::m_asio_thread_stop_flag
    ctx_stopped,  \* m_asio_context.stopped()
    ctx_queue,    \* handlers posted to m_asio_context and not yet run
    pump,         \* position of each thread running Net_user::asio_thread
    executed,     \* jobs run by a pump thread, in order
    app_pc,       \* position of the application thread inside stop_asio_thread
    net_posted,   \* number of jobs accepted by give_asio_job
    net_started,  \* whether a start_asio_thread call has succeeded
    net_last,     \* the last Net_user call: result, state at the call and at its return
    poster_pc,    \* position of a second application thread inside give_asio_job
    poster_err,   \* result of that thread's give_asio_job
    stop_returned,  \* whether a stop_asio_thread call that stopped a thread has returned
    stop_pending, \* the jobs that were pending in the context when such a call returned
    dq_queue,     \* Thread_safe_deque::m_queue, front first
    dq_mutex,     \* Thread_safe_deque::m_mutex: the thread holding it, or "free"
    dq_pc,        \* position of each thread using the deque
    dq_count,     \* number of items each producer has pushed
    dq_pushed,    \* the items in the order push_back put them into the deque
    dq_popped,    \* the items returned to the consumer by pop_front, in order
    dq_ref,       \* the reference front() returned to the reader (<<>>: none)
    conn_open,    \* Client_connection: m_socket.is_open()
    conn_id,      \* Client_connection::m_id
    conn_callback,  \* whether m_on_message_received_callback holds a function
    conn_pc,      \* position inside connect_to_client
    conn_arg,     \* the id passed to connect_to_client (0: not called yet)
    conn_result,  \* how connect_to_client ended: "none", "started" or "not_open"
    conn_reading, \* whether an asynchronous header read is outstanding
    conn_received,  \* the messages completely read so far, in order
    conn_delivered, \* the callback's invocations: message and get_id() at that moment
    conn_dropped, \* the completely read messages that reached no callback
    chat_messages,  \* Main.cpp: the deque "messages" between the stdin thread and main_loop
    chat_flag,    \* Main.cpp: send_thread_exit_flag
    chat_connected, \* what client.is_connected() returns
    send_pc,      \* position of the stdin thread (send_thread)
    main_pc,      \* position of the main thread (main_loop and the end of main)
    chat_line,    \* the line the stdin thread read last
    chat_typed,   \* number of lines typed on stdin so far
    chat_enqueued,  \* the lines the stdin thread pushed to the deque, in order
    chat_sent,    \* the lines passed to client.send_message, in order
    chat_iter_sent, \* number of send_message calls in the current loop iteration
    chat_typed_at_flag  \* number of lines typed on stdin when main set the exit flag

msg_vars == <<m_body, m_size, last>>
rt_vars == <<rt_vals, rt_base, rt_pc, rt_i, rt_out>>
inq_vars == <<m_in_queue, in_pushed, in_popped>>
net_vars == <<m_thread_handle, m_asio_thread_stop_flag, ctx_stopped, ctx_queue, pump,
              executed, app_pc, net_posted, net_started, net_last>>
conc_vars == <<poster_pc, poster_err, stop_returned, stop_pending>>
dq_vars == <<dq_queue, dq_mutex, dq_pc, dq_count, dq_pushed, dq_popped, dq_ref>>
conn_vars == <<conn_open, conn_id, conn_callback, conn_pc, conn_arg, conn_result,
               conn_reading, conn_received, conn_delivered, conn_dropped>>
chat_vars == <<chat_messages, chat_flag, chat_connected, send_pc, main_pc, chat_line,
               chat_typed, chat_enqueued, chat_sent, chat_iter_sent, chat_typed_at_flag>>
ext_vars == <<dq_vars, conn_vars, chat_vars>>
vars == <<msg_vars, rt_vars, inq_vars, net_vars, conc_vars, ext_vars>>

(***************************************************************************)
(* Bounds of the model                                                     *)
(***************************************************************************)
\* std::numeric_limits<Header_size_type>::max(), scaled down
HeaderMax == 9
\* longest string pushed
MaxStrLen == 1
\* longest raw buffer given to push_back_buffer
MaxBuf == 1
\* number of values in a round-trip script
MaxVals == 2
\* number of in_queue_push_back calls
MaxPushes == 4
\* number of jobs accepted by give_asio_job
MaxJobs == 2
\* number of threads that can exist at once
MaxThreads == 2
MaxItems == 2
MaxMessages == 3
MaxLines == 3

\* sizeof(Size_type), Size_type = uint64_t
SizeTypeBytes == 8

\* byte values the callers put into messages
Bytes == {1}

\* sizeof(T) of the fixed-layout types the callers push and extract
FixedSizes == {1, 2}

\* the Size_type values the callers push as plain values
SizeTypeValues == {MaxStrLen + 1}

\* the sizes the callers give to resize_body
ResizeSizes == {0, HeaderMax + 1}

BytesOfLen(n) == [1..n -> Bytes]

Buffers(lo, hi) == UNION {BytesOfLen(n) : n \in lo..hi}

(***************************************************************************)
(* Message                                                                 *)
(***************************************************************************)
\* The object representation of a Size_type value (little endian), k bytes
RECURSIVE SizeTypeBytesOf(_, _)
SizeTypeBytesOf(n, k) ==
    IF k = 0 THEN <<>> ELSE <<n % 256>> \o SizeTypeBytesOf(n \div 256, k - 1)

\* The Size_type value of 8 bytes. A value that does not fit three bytes is
\* reported as 256^3: it is only ever compared with body sizes far below it.
SizeTypeValueOf(bs) ==
    IF \E i \in 4..Len(bs) : bs[i] # 0
    THEN 256 * 256 * 256
    ELSE bs[1] + 256 * bs[2] + 256 * 256 * bs[3]

\* std::vector<char>::resize: truncates, or appends value-initialised chars
VectorResize(body, new_size) ==
    IF new_size <= Len(body)
    THEN SubSeq(body, 1, new_size)
    ELSE body \o [i \in 1..(new_size - Len(body)) |-> 0]

\* static_cast<Header_size_type>(value): the value modulo 2^width
static_cast(value) == value % (HeaderMax + 1)

\* Message::checked_cast: [value, err]
checked_cast(value) ==
    IF value # static_cast(value)
    THEN [value |-> static_cast(value), err |-> "length_error"]
    ELSE [value |-> static_cast(value), err |-> "none"]

Msg(body, size) == [body |-> body, size |-> size]

Res(body, size, err, out) == [body |-> body, size |-> size, err |-> err, out |-> out]

\* Message::resize_body
resize_body(m, new_size) ==
    Res(VectorResize(m.body, new_size), m.size, "none", <<>>)

\* Message::push_back_buffer without the test of new_size
push_back_buffer_unchecked(m, buf) ==
    LET size == Len(m.body)
        new_size == size + Len(buf)
        resized == resize_body(m, new_size).body
    IN  IF size >= Len(resized)
        THEN Res(resized, m.size, "out_of_range", <<>>)
        ELSE LET copied == [i \in 1..Len(resized) |->
                               IF i <= size THEN resized[i] ELSE buf[i - size]]
                 cast == checked_cast(Len(copied))
             IN  IF cast.err # "none"
                 THEN Res(copied, m.size, cast.err, <<>>)
                 ELSE Res(copied, cast.value, "none", <<>>)

\* Message::push_back_buffer(buffer, buffer_size); buf is the buffer's content.
\* size + buffer_size does not wrap in size_t: body and buffer are both in memory.
push_back_buffer(m, buf) ==
    LET size == Len(m.body)
        new_size == size + Len(buf)
    IN  IF new_size > HeaderMax
        THEN Res(m.body, m.size, "length_error", <<>>)
        ELSE LET resized == resize_body(m, new_size).body
             IN  IF size >= Len(resized)
                 THEN \* m_body.at(size) throws
                      Res(resized, m.size, "out_of_range", <<>>)
                 ELSE LET copied == [i \in 1..Len(resized) |->
                                        IF i <= size THEN resized[i] ELSE buf[i - size]]
                          cast == checked_cast(Len(copied))
                      IN  IF cast.err # "none"
                          THEN Res(copied, m.size, cast.err, <<>>)
                          ELSE Res(copied, cast.value, "none", <<>>)

\* Message::push_back<Data_type>: bytes is the object representation of data
push_back(m, bytes) == push_back_buffer(m, bytes)

\* Message::push_back<std::string_view> / push_back<std::string>
push_back_string(m, string) ==
    LET r1 == push_back_buffer(m, string)
    IN  IF r1.err # "none"
        THEN r1
        ELSE push_back(Msg(r1.body, r1.size), SizeTypeBytesOf(Len(string), SizeTypeBytes))

\* Message::extract_to_buffer(buffer, buffer_size); out is what the buffer receives
extract_to_buffer(m, buffer_size) ==
    IF buffer_size > Len(m.body)
    THEN Res(m.body, m.size, "length_error", <<>>)
    ELSE LET new_size == Len(m.body) - buffer_size
         IN  IF new_size >= Len(m.body)
             THEN \* m_body.at(new_size) throws
                  Res(m.body, m.size, "out_of_range", <<>>)
             ELSE LET out == SubSeq(m.body, new_size + 1, Len(m.body))
                      resized == resize_body(m, new_size).body
                      cast == checked_cast(Len(resized))
                  IN  IF cast.err # "none"
                      THEN Res(resized, m.size, cast.err, <<>>)
                      ELSE Res(resized, cast.value, "none", out)

\* Message::extract<Data_type>, data_size = sizeof(Data_type)
extract(m, data_size) == extract_to_buffer(m, data_size)

\* Message::extract<std::string>. A length beyond what the string can hold
\* makes output.resize throw std::length_error, a smaller one that the body
\* does not hold makes extract_to_buffer throw it.
extract_string(m) ==
    LET r1 == extract(m, SizeTypeBytes)
    IN  IF r1.err # "none"
        THEN r1
        ELSE extract_to_buffer(Msg(r1.body, r1.size), SizeTypeValueOf(r1.out))

\* Message::clear
clear(m) == Res(<<>>, 0, "none", <<>>)

\* The message as the variables hold it
This == Msg(m_body, m_size)

NoOp == [op |-> "none", bytes |-> <<>>, n |-> 0, err |-> "none", out |-> <<>>,
         pre |-> Msg(<<>>, 0)]

\* A call of a Message operation: the result r becomes the message, and the
\* call is recorded with the message it was made on.
Call(op, bytes, n, r) ==
    /\ m_body' = r.body
    /\ m_size' = r.size
    /\ last' = [op |-> op, bytes |-> bytes, n |-> n, err |-> r.err, out |-> r.out,
                pre |-> This]
    /\ UNCHANGED <<rt_vars, inq_vars, net_vars, conc_vars, ext_vars>>

MsgInit ==
    /\ m_body = <<>>
    /\ m_size = 0
    /\ last = NoOp

RtIdle ==
    /\ rt_vals = <<>>
    /\ rt_base = <<>>
    /\ rt_pc = "idle"
    /\ rt_i = 0
    /\ rt_out = <<>>

PushBackBuffer ==
    \E buf \in Buffers(0, MaxBuf) :
        Call("push_back_buffer", buf, Len(buf), push_back_buffer(This, buf))

PushBack ==
    \E bytes \in UNION {BytesOfLen(n) : n \in FixedSizes} :
        Call("push_back", bytes, Len(bytes), push_back(This, bytes))

PushBackSizeType ==
    \E v \in SizeTypeValues :
        Call("push_back", SizeTypeBytesOf(v, SizeTypeBytes), SizeTypeBytes,
             push_back(This, SizeTypeBytesOf(v, SizeTypeBytes)))

PushBackString ==
    \E string \in Buffers(0, MaxStrLen) :
        Call("push_back_string", string, Len(string), push_back_string(This, string))

ExtractToBuffer ==
    \E n \in {0, 1, Len(m_body), Len(m_body) + 1} :
        Call("extract_to_buffer", <<>>, n, extract_to_buffer(This, n))

Extract ==
    \E n \in FixedSizes \cup {SizeTypeBytes} :
        Call("extract", <<>>, n, extract(This, n))

ExtractString ==
    Call("extract_string", <<>>, 0, extract_string(This))

Clear ==
    Call("clear", <<>>, 0, clear(This))

ResizeBody ==
    \E n \in ResizeSizes :
        Call("resize_body", <<>>, n, resize_body(This, n))

(***************************************************************************)
(* Round trip: a script that pushes rt_vals onto a message whose body is   *)
(* rt_base and then extracts them with the matching types in reverse order *)
(***************************************************************************)
\* byte values of the values pushed by the script
RtBytes == {1, 2}

\* body bytes the message may hold before the first push
RtBases == {<<>>, <<1>>}

RtValues ==
    [kind : {"fixed"}, bytes : UNION {[1..n -> RtBytes] : n \in FixedSizes}]
        \cup [kind : {"string"}, bytes : UNION {[1..n -> RtBytes] : n \in 0..MaxStrLen}]

\* operator<< for a value of the script
RtPushValue(m, v) ==
    IF v.kind = "string" THEN push_back_string(m, v.bytes) ELSE push_back(m, v.bytes)

\* operator>> into a variable of the type of v
RtExtractValue(m, v) ==
    IF v.kind = "string" THEN extract_string(m) ELSE extract(m, Len(v.bytes))

RtInit ==
    /\ rt_vals \in UNION {[1..n -> RtValues] : n \in 1..MaxVals}
    /\ rt_base \in RtBases
    /\ rt_pc = "push"
    /\ rt_i = 0
    /\ rt_out = <<>>
    /\ m_body = rt_base
    /\ m_size = Len(rt_base)
    /\ last = NoOp

RtPush ==
    /\ rt_pc = "push"
    /\ LET r == RtPushValue(This, rt_vals[rt_i + 1])
       IN  /\ m_body' = r.body
           /\ m_size' = r.size
           /\ IF r.err # "none"
              THEN rt_pc' = "failed" /\ rt_i' = rt_i
              ELSE IF rt_i + 1 = Len(rt_vals)
                   THEN rt_pc' = "extract" /\ rt_i' = 0
                   ELSE rt_pc' = "push" /\ rt_i' = rt_i + 1
    /\ UNCHANGED <<last, rt_vals, rt_base, rt_out, inq_vars, net_vars, conc_vars, ext_vars>>

RtExtract ==
    /\ rt_pc = "extract"
    /\ LET v == rt_vals[Len(rt_vals) - rt_i]
           r == RtExtractValue(This, v)
       IN  /\ m_body' = r.body
           /\ m_size' = r.size
           /\ IF r.err # "none"
              THEN rt_pc' = "failed" /\ rt_i' = rt_i /\ rt_out' = rt_out
              ELSE /\ rt_out' = Append(rt_out, [kind |-> v.kind, bytes |-> r.out])
                   /\ rt_i' = rt_i + 1
                   /\ rt_pc' = IF rt_i + 1 = Len(rt_vals) THEN "done" ELSE "extract"
    /\ UNCHANGED <<last, rt_vals, rt_base, inq_vars, net_vars, conc_vars, ext_vars>>

(***************************************************************************)
(* Thread_safe_deque (the operations Net_user uses), front first           *)
(***************************************************************************)
\* Thread_safe_deque::empty
deque_empty(q) == q = <<>>

\* Thread_safe_deque::push_back
deque_push_back(q, item) == Append(q, item)

\* Thread_safe_deque::pop_front: the queue left and the item returned
\* a pop_front that takes the element from the wrong end
deque_pop_front_from_back(q) == [queue |-> SubSeq(q, 1, Len(q) - 1), item |-> q[Len(q)]]

deque_pop_front(q) == [queue |-> Tail(q), item |-> Head(q)]

\* Thread_safe_deque::pop_back: the queue left and the item returned
deque_pop_back(q) == [queue |-> SubSeq(q, 1, Len(q) - 1), item |-> q[Len(q)]]

(***************************************************************************)
(* Net_user: the inbound queue                                             *)
(***************************************************************************)
\* the messages connections deliver
InMessages == {1, 2}

\* Net_user::is_in_queue_empty
is_in_queue_empty == deque_empty(m_in_queue)

\* Net_user::in_queue_pop_front: the queue left and the message returned
in_queue_pop_front(q) == deque_pop_back(q)

\* Net_user::in_queue_push_back
in_queue_push_back(q, message) == deque_push_back(q, message)

InqInit ==
    /\ m_in_queue = <<>>
    /\ in_pushed = <<>>
    /\ in_popped = <<>>

\* a connection delivers a message
InQueuePushBack ==
    /\ Len(in_pushed) < MaxPushes
    /\ \E message \in InMessages :
           /\ m_in_queue' = in_queue_push_back(m_in_queue, message)
           /\ in_pushed' = Append(in_pushed, message)
    /\ UNCHANGED <<in_popped, msg_vars, rt_vars, net_vars, conc_vars, ext_vars>>

\* the application takes a message; it asks is_in_queue_empty first
InQueuePopFront ==
    /\ ~is_in_queue_empty
    /\ LET r == in_queue_pop_front(m_in_queue)
       IN  /\ m_in_queue' = r.queue
           /\ in_popped' = Append(in_popped, r.item)
    /\ UNCHANGED <<in_pushed, msg_vars, rt_vars, net_vars, conc_vars, ext_vars>>

(***************************************************************************)
(* Net_user: the asio thread                                               *)
(***************************************************************************)
Tids == 1..MaxThreads

\* what the calls read and write, for the record of a call
Snap(handle, flag, stopped, queue, threads) ==
    [handle |-> handle, flag |-> flag, stopped |-> stopped, queue |-> queue,
     threads |-> threads]

NetNoCall == [op |-> "none", err |-> "none", job |-> 0, done |-> TRUE,
              prev |-> "none", started |-> FALSE,
              pre |-> Snap(0, TRUE, FALSE, <<>>, [t \in Tids |-> "none"]),
              post |-> Snap(0, TRUE, FALSE, <<>>, [t \in Tids |-> "none"])]

NetInit ==
    /\ m_thread_handle = 0
    /\ m_asio_thread_stop_flag = TRUE
    /\ ctx_stopped = FALSE
    /\ ctx_queue = <<>>
    /\ pump = [t \in Tids |-> "none"]
    /\ executed = <<>>
    /\ app_pc = "idle"
    /\ net_posted = 0
    /\ net_started = FALSE
    /\ net_last = NetNoCall

ConcInit ==
    /\ poster_pc = "idle"
    /\ poster_err = "none"
    /\ stop_returned = FALSE
    /\ stop_pending = {}

\* The record of a call that returns in the step that makes it
Returned(op, err, job) ==
    net_last' = [op |-> op, err |-> err, job |-> job, done |-> TRUE,
                 prev |-> net_last.op, started |-> net_started,
                 pre |-> Snap(m_thread_handle, m_asio_thread_stop_flag, ctx_stopped,
                              ctx_queue, pump),
                 post |-> Snap(m_thread_handle', m_asio_thread_stop_flag', ctx_stopped',
                               ctx_queue', pump')]

\* std::thread([this] { asio_thread(); }): a thread not in use starts at the
\* loop condition of asio_thread
FreeTids == {t \in Tids : pump[t] = "none"}

\* Net_user::start_asio_thread, without the joinable() test
StartAsioThreadUnguarded ==
    /\ app_pc = "idle"
    /\ FreeTids # {}
    /\ LET t == CHOOSE x \in FreeTids : \A y \in FreeTids : x <= y
       IN  /\ m_thread_handle' = t
           /\ pump' = [pump EXCEPT ![t] = "check"]
    /\ ctx_stopped' = FALSE
    /\ m_asio_thread_stop_flag' = FALSE
    /\ net_started' = TRUE
    /\ UNCHANGED <<ctx_queue, executed, app_pc, net_posted, msg_vars, rt_vars, inq_vars, conc_vars, ext_vars>>
    /\ Returned("start", "none", 0)

\* Net_user::start_asio_thread
StartAsioThread ==
    /\ app_pc = "idle"
    /\ UNCHANGED <<ctx_queue, executed, app_pc, net_posted, msg_vars, rt_vars, inq_vars, conc_vars, ext_vars>>
    /\ IF m_thread_handle = 0
       THEN /\ FreeTids # {}
            /\ LET t == CHOOSE x \in FreeTids : \A y \in FreeTids : x <= y
               IN  /\ m_thread_handle' = t
                   /\ pump' = [pump EXCEPT ![t] = "check"]
            /\ ctx_stopped' = (IF ctx_stopped THEN FALSE ELSE ctx_stopped)
            /\ m_asio_thread_stop_flag' = FALSE
            /\ net_started' = TRUE
            /\ Returned("start", "none", 0)
       ELSE /\ UNCHANGED <<m_thread_handle, pump, ctx_stopped, m_asio_thread_stop_flag,
                           net_started>>
            /\ Returned("start", "runtime_error", 0)

\* The record of a stop_asio_thread call that has assigned the stop flag
StopBegun ==
    net_last' = [op |-> "stop", err |-> "none", job |-> 0, done |-> FALSE,
                 prev |-> net_last.op, started |-> net_started,
                 pre |-> Snap(m_thread_handle, m_asio_thread_stop_flag, ctx_stopped,
                              ctx_queue, pump),
                 post |-> Snap(m_thread_handle, m_asio_thread_stop_flag, ctx_stopped,
                               ctx_queue, pump)]

\* Net_user::stop_asio_thread, without the test of the stop flag
StopAsioThreadUnguarded ==
    /\ app_pc = "idle"
    /\ UNCHANGED <<m_thread_handle, pump, ctx_stopped, net_started, ctx_queue, executed,
                   net_posted, msg_vars, rt_vars, inq_vars, conc_vars, ext_vars>>
    /\ m_asio_thread_stop_flag' = TRUE
    /\ app_pc' = "stop_context"
    /\ StopBegun

\* Net_user::stop_asio_thread, up to the assignment of the stop flag
StopAsioThread ==
    /\ app_pc = "idle"
    /\ UNCHANGED <<m_thread_handle, pump, ctx_stopped, net_started, ctx_queue, executed,
                   net_posted, msg_vars, rt_vars, inq_vars, conc_vars, ext_vars>>
    /\ IF ~m_asio_thread_stop_flag
       THEN /\ m_asio_thread_stop_flag' = TRUE
            /\ app_pc' = "stop_context"
            /\ StopBegun
       ELSE /\ UNCHANGED <<m_asio_thread_stop_flag, app_pc>>
            /\ Returned("stop", "none", 0)

\* stop_asio_thread: m_asio_context.stop()
StopContext ==
    /\ app_pc = "stop_context"
    /\ ctx_stopped' = TRUE
    /\ app_pc' = "stop_join"
    /\ UNCHANGED <<m_thread_handle, m_asio_thread_stop_flag, ctx_queue, pump, executed,
                   net_posted, net_started, net_last, msg_vars, rt_vars, inq_vars, conc_vars, ext_vars>>

\* stop_asio_thread: if (joinable()) join(), which returns once the thread
\* has left asio_thread, and the return of stop_asio_thread
StopJoin ==
    /\ app_pc = "stop_join"
    /\ IF m_thread_handle # 0
       THEN /\ pump[m_thread_handle] = "done"
            /\ pump' = [pump EXCEPT ![m_thread_handle] = "none"]
            /\ m_thread_handle' = 0
       ELSE UNCHANGED <<pump, m_thread_handle>>
    /\ app_pc' = "idle"
    /\ net_last' = [net_last EXCEPT
                       !.done = TRUE,
                       !.post = Snap(m_thread_handle', m_asio_thread_stop_flag,
                                     ctx_stopped, ctx_queue, pump')]
    /\ stop_returned' = TRUE
    /\ stop_pending' = stop_pending \cup {ctx_queue[i] : i \in 1..Len(ctx_queue)}
    /\ UNCHANGED <<m_asio_thread_stop_flag, ctx_stopped, ctx_queue, executed,
                   net_posted, net_started, msg_vars, rt_vars, inq_vars,
                   poster_pc, poster_err, ext_vars>>

\* Net_user::give_asio_job, without the test of the stop flag
GiveAsioJobUnguarded ==
    /\ app_pc = "idle"
    /\ net_posted < MaxJobs
    /\ UNCHANGED <<m_thread_handle, m_asio_thread_stop_flag, ctx_stopped, pump,
                   executed, app_pc, net_started, msg_vars, rt_vars, inq_vars, conc_vars, ext_vars>>
    /\ ctx_queue' = Append(ctx_queue, net_posted + 1)
    /\ net_posted' = net_posted + 1
    /\ Returned("give", "none", net_posted + 1)

\* Net_user::give_asio_job; the jobs are numbered in the order they are given
GiveAsioJob ==
    /\ app_pc = "idle"
    /\ net_posted < MaxJobs
    /\ UNCHANGED <<m_thread_handle, m_asio_thread_stop_flag, ctx_stopped, pump,
                   executed, app_pc, net_started, msg_vars, rt_vars, inq_vars, conc_vars, ext_vars>>
    /\ IF ~m_asio_thread_stop_flag
       THEN /\ ctx_queue' = Append(ctx_queue, net_posted + 1)
            /\ net_posted' = net_posted + 1
            /\ Returned("give", "none", net_posted + 1)
       ELSE /\ UNCHANGED <<ctx_queue, net_posted>>
            /\ Returned("give", "runtime_error", net_posted + 1)

\* Net_user::asio_thread: the loop condition. The flag is a plain bool that
\* the application thread writes meanwhile: the read yields the value before
\* or after that write, which is this step taken before or after it.
PumpCheck(t) ==
    /\ pump[t] = "check"
    /\ pump' = [pump EXCEPT ![t] = IF m_asio_thread_stop_flag THEN "done" ELSE "run"]
    /\ UNCHANGED <<m_thread_handle, m_asio_thread_stop_flag, ctx_stopped, ctx_queue,
                   executed, app_pc, net_posted, net_started, net_last,
                   msg_vars, rt_vars, inq_vars, conc_vars, ext_vars>>

\* Net_user::asio_thread: m_asio_context.run() runs the next posted handler;
\* the context stops itself when it has no work left
PumpRunHandler(t) ==
    /\ pump[t] = "run"
    /\ ~ctx_stopped
    /\ ctx_queue # <<>>
    /\ executed' = Append(executed, Head(ctx_queue))
    /\ ctx_queue' = Tail(ctx_queue)
    /\ ctx_stopped' = (Tail(ctx_queue) = <<>>)
    /\ UNCHANGED <<m_thread_handle, m_asio_thread_stop_flag, pump, app_pc, net_posted,
                   net_started, net_last, msg_vars, rt_vars, inq_vars, conc_vars, ext_vars>>

\* Net_user::asio_thread: m_asio_context.run() returns, because the context
\* is stopped or because it has no work (and then stops itself)
PumpRunReturn(t) ==
    /\ pump[t] = "run"
    /\ ctx_stopped \/ ctx_queue = <<>>
    /\ ctx_stopped' = TRUE
    /\ pump' = [pump EXCEPT ![t] = "check"]
    /\ UNCHANGED <<m_thread_handle, m_asio_thread_stop_flag, ctx_queue, executed, app_pc,
                   net_posted, net_started, net_last, msg_vars, rt_vars, inq_vars, conc_vars, ext_vars>>

\* the job a second application thread gives
PosterJob == MaxJobs + 1

\* Net_user::give_asio_job called on a second application thread: the test
\* of m_asio_thread_stop_flag.  The flag is a plain bool another thread may
\* be writing in stop_asio_thread; the read yields the value before or after
\* that write.
PosterGiveCheck ==
    /\ poster_pc = "idle"
    /\ IF ~m_asio_thread_stop_flag
       THEN poster_pc' = "post" /\ UNCHANGED poster_err
       ELSE poster_pc' = "done" /\ poster_err' = "runtime_error"
    /\ UNCHANGED <<net_vars, stop_returned, stop_pending, msg_vars, rt_vars, inq_vars,
                   ext_vars>>

\* give_asio_job on the second thread: asio::post(m_asio_context, job)
PosterGivePost ==
    /\ poster_pc = "post"
    /\ ctx_queue' = Append(ctx_queue, PosterJob)
    /\ poster_pc' = "done"
    /\ UNCHANGED <<m_thread_handle, m_asio_thread_stop_flag, ctx_stopped, pump, executed,
                   app_pc, net_posted, net_started, net_last, poster_err, stop_returned,
                   stop_pending, msg_vars, rt_vars, inq_vars, ext_vars>>

(***************************************************************************)
(* Thread_safe_deque used by several threads.  Every member function takes *)
(* std::scoped_lock on m_mutex for its whole body: a call is the step that *)
(* acquires the mutex followed by the step that runs the body and releases *)
(* the mutex on return.  Producers call push_back; the consumer calls      *)
(* empty() and, when it returned false, pop_front(); the reader calls      *)
(* front() and then reads the element through the returned reference.      *)
(***************************************************************************)
Producers == {"p1", "p2"}

Consumer == "consumer"

Reader == "reader"

DqThreads == Producers \cup {Consumer, Reader}

DqItems == {<<p, k>> : p \in Producers, k \in 1..MaxItems}

SeqToSet(q) == {q[i] : i \in 1..Len(q)}

DqInit ==
    /\ dq_queue = <<>>
    /\ dq_mutex = "free"
    /\ dq_pc = [t \in DqThreads |-> "idle"]
    /\ dq_count = [p \in Producers |-> 0]
    /\ dq_pushed = <<>>
    /\ dq_popped = <<>>
    /\ dq_ref = <<>>

\* std::scoped_lock lock(m_mutex) at the top of the member function op
scoped_lock(t, op) ==
    /\ dq_pc[t] = "idle"
    /\ dq_mutex = "free"
    /\ dq_mutex' = t
    /\ dq_pc' = [dq_pc EXCEPT ![t] = op]

\* the lock's destructor on return from the member function
scoped_unlock(t, next) ==
    /\ dq_mutex' = "free"
    /\ dq_pc' = [dq_pc EXCEPT ![t] = next]

DqOthers == <<msg_vars, rt_vars, inq_vars, net_vars, conc_vars, conn_vars, chat_vars>>

PushBackLock(p) ==
    /\ dq_count[p] < MaxItems
    /\ scoped_lock(p, "push_back")
    /\ UNCHANGED <<dq_queue, dq_count, dq_pushed, dq_popped, dq_ref, DqOthers>>

PushBackBody(p) ==
    /\ dq_pc[p] = "push_back"
    /\ LET item == <<p, dq_count[p] + 1>> IN
          /\ dq_queue' = deque_push_back(dq_queue, item)
          /\ dq_pushed' = Append(dq_pushed, item)
    /\ dq_count' = [dq_count EXCEPT ![p] = @ + 1]
    /\ scoped_unlock(p, "idle")
    /\ UNCHANGED <<dq_popped, dq_ref, DqOthers>>

EmptyLock ==
    /\ scoped_lock(Consumer, "empty")
    /\ UNCHANGED <<dq_queue, dq_count, dq_pushed, dq_popped, dq_ref, DqOthers>>

\* the consumer goes on to pop_front only when empty() returned false
EmptyBody ==
    /\ dq_pc[Consumer] = "empty"
    /\ scoped_unlock(Consumer, IF deque_empty(dq_queue) THEN "idle" ELSE "nonempty")
    /\ UNCHANGED <<dq_queue, dq_count, dq_pushed, dq_popped, dq_ref, DqOthers>>

PopFrontLock ==
    /\ dq_pc[Consumer] = "nonempty"
    /\ dq_mutex = "free"
    /\ dq_mutex' = Consumer
    /\ dq_pc' = [dq_pc EXCEPT ![Consumer] = "pop_front"]
    /\ UNCHANGED <<dq_queue, dq_count, dq_pushed, dq_popped, dq_ref, DqOthers>>

PopFrontBody ==
    /\ dq_pc[Consumer] = "pop_front"
    /\ dq_queue # <<>>
    /\ LET r == deque_pop_front(dq_queue) IN
          /\ dq_queue' = r.queue
          /\ dq_popped' = Append(dq_popped, r.item)
    /\ scoped_unlock(Consumer, "idle")
    /\ UNCHANGED <<dq_count, dq_pushed, dq_ref, DqOthers>>

\* the reader calls front() at a moment the deque holds an element
FrontLock ==
    /\ dq_queue # <<>>
    /\ scoped_lock(Reader, "front")
    /\ UNCHANGED <<dq_queue, dq_count, dq_pushed, dq_popped, dq_ref, DqOthers>>

\* return m_queue.front(): a const T& into the deque, handed out as the
\* mutex is released
FrontBody ==
    /\ dq_pc[Reader] = "front"
    /\ dq_ref' = Head(dq_queue)
    /\ scoped_unlock(Reader, "use")
    /\ UNCHANGED <<dq_queue, dq_count, dq_pushed, dq_popped, DqOthers>>

\* the reader reads the element through the reference; the mutex is not held
FrontUse ==
    /\ dq_pc[Reader] = "use"
    /\ dq_pc' = [dq_pc EXCEPT ![Reader] = "idle"]
    /\ dq_ref' = <<>>
    /\ UNCHANGED <<dq_queue, dq_mutex, dq_count, dq_pushed, dq_popped, DqOthers>>

(***************************************************************************)
(* Client_connection: the server's side of one connection.                 *)
(* connect_to_client and add_message_to_incoming_queue are in the source;  *)
(* the read loop of the base class Net_connection (async_read_header, the  *)
(* completion of a read, the re-issued read) is not, and follows the       *)
(* documented behaviour: once a header read is issued, each completely     *)
(* read message is passed to add_message_to_incoming_queue and the next    *)
(* header read is issued, while the socket is open.                        *)
(***************************************************************************)
ConnIds == {1, 2}

ConnMessages == {"a", "b"}

\* after construction: the socket handed to the constructor is open or not,
\* m_id = 0, the callback is empty, nothing is being read
ConnInit ==
    /\ conn_open \in BOOLEAN
    /\ conn_id = 0
    /\ conn_callback = FALSE
    /\ conn_pc = "idle"
    /\ conn_arg = 0
    /\ conn_result = "none"
    /\ conn_reading = FALSE
    /\ conn_received = <<>>
    /\ conn_delivered = <<>>
    /\ conn_dropped = <<>>

\* a connection that is not used: its socket is closed
ConnIdle ==
    /\ conn_open = FALSE
    /\ conn_id = 0
    /\ conn_callback = FALSE
    /\ conn_pc = "idle"
    /\ conn_arg = 0
    /\ conn_result = "none"
    /\ conn_reading = FALSE
    /\ conn_received = <<>>
    /\ conn_delivered = <<>>
    /\ conn_dropped = <<>>

ConnOthers == <<msg_vars, rt_vars, inq_vars, net_vars, conc_vars, dq_vars>>

\* connect_to_client(id): the test of m_socket.is_open(); the server calls it
\* once for a connection it accepted
ConnectToClient(id) ==
    /\ conn_pc = "idle"
    /\ conn_arg = 0
    /\ conn_arg' = id
    /\ IF conn_open
       THEN conn_pc' = "store_id" /\ UNCHANGED conn_result
       ELSE conn_pc' = "idle" /\ conn_result' = "not_open"
    /\ UNCHANGED <<conn_open, conn_id, conn_callback, conn_reading, conn_received,
                   conn_delivered, conn_dropped, ConnOthers, chat_vars>>

\* a connect_to_client that goes on without storing the id
ConnectStoreIdSkipped ==
    /\ conn_pc = "store_id"
    /\ conn_pc' = "read_header"
    /\ UNCHANGED <<conn_open, conn_id, conn_callback, conn_arg, conn_result, conn_reading,
                   conn_received, conn_delivered, conn_dropped, ConnOthers, chat_vars>>

\* m_id = id
ConnectStoreId ==
    /\ conn_pc = "store_id"
    /\ conn_id' = conn_arg
    /\ conn_pc' = "read_header"
    /\ UNCHANGED <<conn_open, conn_callback, conn_arg, conn_result, conn_reading,
                   conn_received, conn_delivered, conn_dropped, ConnOthers, chat_vars>>

\* this->async_read_header(): the first header read is issued
ConnectReadHeader ==
    /\ conn_pc = "read_header"
    /\ conn_reading' = conn_open
    /\ conn_result' = "started"
    /\ conn_pc' = "idle"
    /\ UNCHANGED <<conn_open, conn_id, conn_callback, conn_arg, conn_received,
                   conn_delivered, conn_dropped, ConnOthers, chat_vars>>

get_id == conn_id

SetOnMessageReceivedCallback ==
    /\ ~conn_callback
    /\ conn_callback' = TRUE
    /\ UNCHANGED <<conn_open, conn_id, conn_pc, conn_arg, conn_result, conn_reading,
                   conn_received, conn_delivered, conn_dropped, ConnOthers, chat_vars>>

\* add_message_to_incoming_queue(message): the callback is invoked with the
\* message and shared_from_this() when it is set; there is no else branch
add_message_to_incoming_queue(message) ==
    IF conn_callback
    THEN /\ conn_delivered' = Append(conn_delivered, [message |-> message, id |-> get_id])
         /\ UNCHANGED conn_dropped
    ELSE /\ conn_dropped' = Append(conn_dropped, message)
         /\ UNCHANGED conn_delivered

\* an outstanding read completes with a whole message: it is handed to
\* add_message_to_incoming_queue and the next header read is issued
ReadCompletes(message) ==
    /\ conn_reading
    /\ conn_open
    /\ Len(conn_received) < MaxMessages
    /\ conn_received' = Append(conn_received, message)
    /\ add_message_to_incoming_queue(message)
    /\ UNCHANGED <<conn_open, conn_id, conn_callback, conn_pc, conn_arg, conn_result,
                   conn_reading, ConnOthers, chat_vars>>

\* the peer disconnects or a read fails: the socket is closed and the
\* outstanding read is abandoned
SocketCloses ==
    /\ conn_open
    /\ conn_open' = FALSE
    /\ conn_reading' = FALSE
    /\ UNCHANGED <<conn_id, conn_callback, conn_pc, conn_arg, conn_result,
                   conn_received, conn_delivered, conn_dropped, ConnOthers, chat_vars>>

(***************************************************************************)
(* The chat client (Network_client/Main.cpp)                               *)
(***************************************************************************)
\* the state at the start of main: empty deque, exit flag false
ChatIdle ==
    /\ chat_messages = <<>>
    /\ chat_flag = FALSE
    /\ chat_connected = FALSE
    /\ send_pc = "not_started"
    /\ main_pc = "not_started"
    /\ chat_line = 0
    /\ chat_typed = 0
    /\ chat_enqueued = <<>>
    /\ chat_sent = <<>>
    /\ chat_iter_sent = 0
    /\ chat_typed_at_flag = 0

\* main at the call of main_loop: connected, the stdin thread started
ChatInit ==
    /\ chat_messages = <<>>
    /\ chat_flag = FALSE
    /\ chat_connected = TRUE
    /\ send_pc = "check"
    /\ main_pc = "loop"
    /\ chat_line = 0
    /\ chat_typed = 0
    /\ chat_enqueued = <<>>
    /\ chat_sent = <<>>
    /\ chat_iter_sent = 0
    /\ chat_typed_at_flag = 0

ChatOthers == <<msg_vars, rt_vars, inq_vars, net_vars, conc_vars, dq_vars, conn_vars>>

\* send_thread: while (!send_thread_exit_flag).  The flag is a plain bool
\* that main writes without synchronisation; the read yields the value before
\* or after that write.
SendThreadCheck ==
    /\ send_pc = "check"
    /\ send_pc' = (IF chat_flag THEN "done" ELSE "getline")
    /\ UNCHANGED <<chat_messages, chat_flag, chat_connected, main_pc, chat_line, chat_typed,
                   chat_enqueued, chat_sent, chat_iter_sent, chat_typed_at_flag, ChatOthers>>

\* send_thread: std::getline(std::cin, message) returns when a line has been
\* typed; the lines are numbered in the order they are typed
SendThreadGetline ==
    /\ send_pc = "getline"
    /\ chat_typed < MaxLines
    /\ chat_typed' = chat_typed + 1
    /\ chat_line' = chat_typed + 1
    /\ send_pc' = "push"
    /\ UNCHANGED <<chat_messages, chat_flag, chat_connected, main_pc, chat_enqueued,
                   chat_sent, chat_iter_sent, chat_typed_at_flag, ChatOthers>>

\* send_thread: the message is built and messages.push_back(net_message)
SendThreadPush ==
    /\ send_pc = "push"
    /\ chat_messages' = deque_push_back(chat_messages, chat_line)
    /\ chat_enqueued' = Append(chat_enqueued, chat_line)
    /\ send_pc' = "check"
    /\ UNCHANGED <<chat_flag, chat_connected, main_pc, chat_line, chat_typed, chat_sent,
                   chat_iter_sent, chat_typed_at_flag, ChatOthers>>

\* main_loop: while (client.is_connected()) and handle_received_messages(),
\* which touches only the client's inbound queue
MainLoopCheck ==
    /\ main_pc = "loop"
    /\ main_pc' = (IF chat_connected THEN "empty" ELSE "set_flag")
    /\ chat_iter_sent' = 0
    /\ UNCHANGED <<chat_messages, chat_flag, chat_connected, send_pc, chat_line, chat_typed,
                   chat_enqueued, chat_sent, chat_typed_at_flag, ChatOthers>>

\* a main_loop that calls pop_front without asking empty()
MainEmptyUnchecked ==
    /\ main_pc = "empty"
    /\ main_pc' = "pop"
    /\ UNCHANGED <<chat_messages, chat_flag, chat_connected, send_pc, chat_line, chat_typed,
                   chat_enqueued, chat_sent, chat_iter_sent, chat_typed_at_flag, ChatOthers>>

\* main_loop: if (!messages.empty())
MainEmpty ==
    /\ main_pc = "empty"
    /\ main_pc' = (IF ~deque_empty(chat_messages) THEN "pop" ELSE "loop")
    /\ UNCHANGED <<chat_messages, chat_flag, chat_connected, send_pc, chat_line, chat_typed,
                   chat_enqueued, chat_sent, chat_iter_sent, chat_typed_at_flag, ChatOthers>>

\* a main_loop that takes the newest message
chat_pop_newest(q) == [queue |-> SubSeq(q, 1, Len(q) - 1), item |-> q[Len(q)]]

\* main_loop: messages.pop_front()
chat_pop(q) == deque_pop_front(q)

\* main_loop: client.send_message(messages.pop_front())
MainPopSend ==
    /\ main_pc = "pop"
    /\ chat_messages # <<>>
    /\ LET r == chat_pop(chat_messages) IN
          /\ chat_messages' = r.queue
          /\ chat_sent' = Append(chat_sent, r.item)
    /\ chat_iter_sent' = chat_iter_sent + 1
    /\ main_pc' = "loop"
    /\ UNCHANGED <<chat_flag, chat_connected, send_pc, chat_line, chat_typed, chat_enqueued,
                   chat_typed_at_flag, ChatOthers>>

\* the connection to the server is lost
ConnectionLost ==
    /\ chat_connected
    /\ chat_connected' = FALSE
    /\ UNCHANGED <<chat_messages, chat_flag, send_pc, main_pc, chat_line, chat_typed,
                   chat_enqueued, chat_sent, chat_iter_sent, chat_typed_at_flag, ChatOthers>>

\* main: send_thread_exit_flag = true
MainSetExitFlag ==
    /\ main_pc = "set_flag"
    /\ chat_flag' = TRUE
    /\ chat_typed_at_flag' = chat_typed
    /\ main_pc' = "join"
    /\ UNCHANGED <<chat_messages, chat_connected, send_pc, chat_line, chat_typed,
                   chat_enqueued, chat_sent, chat_iter_sent, ChatOthers>>

\* main: thread.join() returns once send_thread has returned
MainJoin ==
    /\ main_pc = "join"
    /\ send_pc = "done"
    /\ main_pc' = "done"
    /\ UNCHANGED <<chat_messages, chat_flag, chat_connected, send_pc, chat_line, chat_typed,
                   chat_enqueued, chat_sent, chat_iter_sent, chat_typed_at_flag, ChatOthers>>

ExtInit == DqInit /\ ConnIdle /\ ChatIdle

(***************************************************************************)
(* Specifications                                                          *)
(***************************************************************************)
MessageInit == MsgInit /\ RtIdle /\ InqInit /\ NetInit /\ ConcInit /\ ExtInit

MessageNext ==
    \/ PushBackBuffer
    \/ PushBack
    \/ PushBackSizeType
    \/ PushBackString
    \/ ExtractToBuffer
    \/ Extract
    \/ ExtractString
    \/ Clear
    \/ ResizeBody

MessageSpec == MessageInit /\ [][MessageNext]_vars

RoundTripInit == RtInit /\ InqInit /\ NetInit /\ ConcInit /\ ExtInit

RoundTripNext ==
    \/ RtPush
    \/ RtExtract

RoundTripSpec == RoundTripInit /\ [][RoundTripNext]_vars

InQueueInit == InqInit /\ MsgInit /\ RtIdle /\ NetInit /\ ConcInit /\ ExtInit

InQueueNext ==
    \/ InQueuePushBack
    \/ InQueuePopFront

InQueueSpec == InQueueInit /\ [][InQueueNext]_vars

NetUserInit == NetInit /\ MsgInit /\ RtIdle /\ InqInit /\ ConcInit /\ ExtInit

NetUserNext ==
    \/ StartAsioThread
    \/ StopAsioThread
    \/ StopContext
    \/ StopJoin
    \/ GiveAsioJob
    \/ \E t \in Tids : PumpCheck(t)
    \/ \E t \in Tids : PumpRunHandler(t)
    \/ \E t \in Tids : PumpRunReturn(t)

NetUserSpec == NetUserInit /\ [][NetUserNext]_vars

\* Net_user with a second application thread giving a job.  Scheduling: a
\* thread that is runnable keeps running, so the pump thread's steps, the
\* remaining steps of a stop_asio_thread or give_asio_job call that has begun
\* are taken eventually; whether the application makes a further call is its
\* own choice and carries no fairness.
NetUserConcNext ==
    \/ NetUserNext
    \/ PosterGiveCheck
    \/ PosterGivePost

NetUserFairness ==
    /\ \A t \in Tids : WF_vars(PumpCheck(t))
    /\ \A t \in Tids : WF_vars(PumpRunHandler(t))
    /\ \A t \in Tids : WF_vars(PumpRunReturn(t))
    /\ WF_vars(StopContext)
    /\ WF_vars(StopJoin)
    /\ WF_vars(PosterGivePost)

NetUserConcSpec == NetUserInit /\ [][NetUserConcNext]_vars /\ NetUserFairness

\* Net_user called from one application thread, under the same scheduling
NetUserFairSpec == NetUserInit /\ [][NetUserNext]_vars /\ NetUserFairness

DequeInit == DqInit /\ MsgInit /\ RtIdle /\ InqInit /\ NetInit /\ ConcInit /\ ConnIdle /\ ChatIdle

DequeNext ==
    \/ \E p \in Producers : PushBackLock(p)
    \/ \E p \in Producers : PushBackBody(p)
    \/ EmptyLock
    \/ EmptyBody
    \/ PopFrontLock
    \/ PopFrontBody
    \/ FrontLock
    \/ FrontBody
    \/ FrontUse

DequeSpec == DequeInit /\ [][DequeNext]_vars

ConnectionInit == ConnInit /\ MsgInit /\ RtIdle /\ InqInit /\ NetInit /\ ConcInit /\ DqInit /\ ChatIdle

ConnectionNext ==
    \/ \E id \in ConnIds : ConnectToClient(id)
    \/ ConnectStoreId
    \/ ConnectReadHeader
    \/ SetOnMessageReceivedCallback
    \/ \E message \in ConnMessages : ReadCompletes(message)
    \/ SocketCloses

ConnectionSpec == ConnectionInit /\ [][ConnectionNext]_vars

ChatClientInit == ChatInit /\ MsgInit /\ RtIdle /\ InqInit /\ NetInit /\ ConcInit /\ DqInit /\ ConnIdle

ChatClientNext ==
    \/ SendThreadCheck
    \/ SendThreadGetline
    \/ SendThreadPush
    \/ MainLoopCheck
    \/ MainEmpty
    \/ MainPopSend
    \/ ConnectionLost
    \/ MainSetExitFlag
    \/ MainJoin

ChatClientSpec == ChatClientInit /\ [][ChatClientNext]_vars

(***************************************************************************)
(* Claims about Message                                                    *)
(***************************************************************************)
\* C2: in every reachable state of a Message, whatever public mutating
\* operations were called and whether they failed or not, the header's size
\* field equals the number of bytes in the body.
SizeInvariant == m_size = Len(m_body)

Reverse(s) == [i \in 1..Len(s) |-> s[Len(s) + 1 - i]]

RECURSIVE RtEncodedSize(_)
RtEncodedSize(vs) ==
    IF vs = <<>> THEN 0
    ELSE (IF Head(vs).kind = "string" THEN Len(Head(vs).bytes) + SizeTypeBytes
          ELSE Len(Head(vs).bytes)) + RtEncodedSize(Tail(vs))

\* C3: values v1..vn (fixed-layout values or strings) that fit the message
\* are all pushed, the n extracts with the matching types in reverse order
\* return vn, ..., v1 exactly, and the body is then what it was before the
\* first push.
RoundTrip ==
    /\ rt_pc = "failed" => Len(rt_base) + RtEncodedSize(rt_vals) > HeaderMax
    /\ rt_pc = "done" => rt_out = Reverse(rt_vals) /\ m_body = rt_base

IsFixedPush == last.op \in {"push_back", "push_back_buffer"}

Unchanged == m_body = last.pre.body /\ m_size = last.pre.size

\* C4: a push_back / push_back_buffer of buffer_size bytes that would make
\* the body longer than the largest value of the header's size type fails
\* with a length error and leaves header and body as they were.
OverflowFixedPush ==
    (IsFixedPush /\ Len(last.pre.body) + last.n > HeaderMax)
        => (last.err = "length_error" /\ Unchanged)

\* C4 witness: a push onto a body within the header's range was refused
\* because the pushed bytes did not fit.
OverflowFixedPushWitness ==
    /\ IsFixedPush
    /\ Len(last.pre.body) <= HeaderMax
    /\ Len(last.pre.body) + last.n > HeaderMax
    /\ last.err = "length_error"

\* C5: a string push is all-or-nothing: push_back(string) either appends the
\* string's bytes and its 8-byte length, or fails and leaves the Message
\* unchanged (whatever the error it fails with).
StringPushAllOrNothing ==
    last.op = "push_back_string" =>
        \/ /\ last.err = "none"
           /\ m_body = last.pre.body \o last.bytes
                           \o SizeTypeBytesOf(Len(last.bytes), SizeTypeBytes)
           /\ m_size = Len(m_body)
        \/ /\ last.err # "none"
           /\ Unchanged

IsFixedExtract == last.op \in {"extract", "extract_to_buffer"}

\* C6: an extract<T> / extract_to_buffer of more bytes than the body holds
\* fails with a length error and leaves the Message unchanged; one of exactly
\* the bytes the body holds succeeds and leaves the body empty.
UnderflowFixedExtract ==
    /\ (IsFixedExtract /\ last.n > Len(last.pre.body))
           => (last.err = "length_error" /\ Unchanged)
    /\ (IsFixedExtract /\ last.n = Len(last.pre.body))
           => (last.err = "none" /\ m_body = <<>>)

\* the length held by the last 8 bytes of a body
TrailingLength(body) ==
    SizeTypeValueOf(SubSeq(body, Len(body) - SizeTypeBytes + 1, Len(body)))

\* C7: extract<std::string> on a body that ends in an 8-byte length L with
\* fewer than L bytes before it fails with a length error and leaves body
\* (trailing length included) and header size as they were.
UnderflowStringExtract ==
    (/\ last.op = "extract_string"
     /\ Len(last.pre.body) >= SizeTypeBytes
     /\ TrailingLength(last.pre.body) > Len(last.pre.body) - SizeTypeBytes)
        => (last.err = "length_error" /\ Unchanged)

(***************************************************************************)
(* Claims about Net_user                                                   *)
(***************************************************************************)
\* C1: the inbound queue is FIFO: the messages returned by successive
\* in_queue_pop_front calls are the messages given to in_queue_push_back, in
\* the order they were pushed.
InQueueFifo == in_popped = SubSeq(in_pushed, 1, Len(in_popped))

NoPumpThread(threads) == \A t \in Tids : threads[t] = "none"

\* C8: there is never more than one pump thread, and start_asio_thread
\* called while a thread is joinable fails with an error and leaves the
\* thread, the context and the stop flag as they were.
AtMostOnePumpThread ==
    /\ Cardinality({t \in Tids : pump[t] # "none"}) <= 1
    /\ (net_last.op = "start" /\ net_last.pre.handle # 0)
           => (net_last.err = "runtime_error" /\ net_last.post = net_last.pre)

\* C8 witness: start_asio_thread was refused while the pump thread runs.
AtMostOnePumpThreadWitness ==
    /\ net_last.op = "start"
    /\ net_last.err = "runtime_error"
    /\ m_thread_handle # 0
    /\ pump[m_thread_handle] \in {"check", "run"}

\* C9: stop_asio_thread never fails; called right after another
\* stop_asio_thread, or before any start_asio_thread, it changes nothing; and
\* once a thread was started it returns with the stop flag set, the context
\* stopped and the pump thread joined and no longer joinable.
StopIdempotent ==
    (net_last.op = "stop" /\ net_last.done) =>
        /\ net_last.err = "none"
        /\ (net_last.prev = "stop" \/ ~net_last.started)
               => net_last.post = net_last.pre
        /\ net_last.started
               => /\ net_last.post.flag
                  /\ net_last.post.stopped
                  /\ net_last.post.handle = 0
                  /\ NoPumpThread(net_last.post.threads)

\* C9 witness: a second stop_asio_thread in a row, after a thread was started
\* and stopped, has returned.
StopIdempotentWitness ==
    /\ net_last.op = "stop"
    /\ net_last.done
    /\ net_last.prev = "stop"
    /\ net_last.started
    /\ executed # <<>>

\* C10: give_asio_job fails with the not-running error, posting nothing,
\* exactly when no pump thread exists (before the first start_asio_thread and
\* after a completed stop_asio_thread); otherwise it posts the job.
GiveJobFailsIffNotRunning ==
    net_last.op = "give" =>
        /\ (net_last.err = "runtime_error") <=> NoPumpThread(net_last.pre.threads)
        /\ net_last.err = "runtime_error" => net_last.post.queue = net_last.pre.queue
        /\ net_last.err # "runtime_error"
               => /\ net_last.err = "none"
                  /\ net_last.post.queue = Append(net_last.pre.queue, net_last.job)

\* C10 witness: a job was refused after a thread was started and stopped.
GiveJobFailsIffNotRunningWitness ==
    /\ net_last.op = "give"
    /\ net_last.err = "runtime_error"
    /\ net_last.prev = "stop"
    /\ net_last.started

(***************************************************************************)
(* Claims about Thread_safe_deque under concurrency                        *)
(***************************************************************************)
\* the items of producer p in the sequence q, in the order they appear
RECURSIVE ItemsOf(_, _)
ItemsOf(q, p) ==
    IF q = <<>> THEN <<>>
    ELSE IF Head(q)[1] = p THEN <<Head(q)[2]>> \o ItemsOf(Tail(q), p)
         ELSE ItemsOf(Tail(q), p)

\* C11: with any number of producers calling push_back and one consumer
\* calling pop_front only after empty() returned false, the items popped so
\* far followed by the items still queued are exactly the items pushed, in
\* the order the pushes took effect: no item is lost or popped twice, each
\* producer's items come out in the order that producer pushed them
\* (1, 2, 3, ...), and pushes followed by as many pops return the push order.
DequeFifo ==
    /\ dq_popped \o dq_queue = dq_pushed
    /\ Len(dq_pushed) = Cardinality(SeqToSet(dq_pushed))
    /\ SeqToSet(dq_pushed) = {i \in DqItems : i[2] <= dq_count[i[1]]}
    /\ \A p \in Producers :
          \E n \in 0..MaxItems : ItemsOf(dq_popped, p) = [k \in 1..n |-> k]

\* both producers pushed concurrently (the second push of p1 took effect
\* after a push of p2) and the consumer has popped every item
DequeFifoWitness ==
    /\ dq_queue = <<>>
    /\ Len(dq_popped) >= 3
    /\ \E i, j \in 1..Len(dq_popped) :
          i < j /\ dq_popped[i][1] = "p2" /\ dq_popped[j][1] = "p1" /\ dq_popped[j][2] = 2
    /\ dq_pc[Consumer] = "idle"

\* C18: whenever the reader is about to read the element it obtained from
\* front(), that element is still in the deque: no pop_front of another
\* thread has removed it between front() returning and the read.
DequeElementAccessUnderMutex ==
    dq_pc[Reader] = "use" => dq_ref \in SeqToSet(dq_queue)

(***************************************************************************)
(* Claims about Client_connection                                          *)
(***************************************************************************)
\* C12: connect_to_client(id) stores the id before the first header read is
\* issued: whenever a read is outstanding or connect_to_client is past the
\* assignment, get_id() is the id passed in, and every message was delivered
\* to the callback while get_id() returned that id; a call made while the
\* socket is not open issues no read, delivers nothing and leaves the id as
\* it was (0).
IdAssignedBeforeReadLoop ==
    /\ (conn_reading \/ conn_pc = "read_header" \/ conn_result = "started") =>
          (get_id = conn_arg /\ conn_arg \in ConnIds)
    /\ \A i \in 1..Len(conn_delivered) :
          conn_delivered[i].id = conn_arg /\ conn_arg \in ConnIds
    /\ conn_result = "not_open" =>
          (get_id = 0 /\ ~conn_reading /\ conn_received = <<>>)

\* connect_to_client(2) on an open socket, and two messages delivered since
IdAssignedBeforeReadLoopWitness ==
    /\ conn_result = "started"
    /\ conn_arg = 2
    /\ Len(conn_delivered) >= 2

\* C13: every completely read message is handed to the owner's callback,
\* whatever the order of set_on_message_received_callback, connect_to_client
\* and the arrivals: no completely read message is dropped.
NoReceivedMessageDropped ==
    /\ conn_dropped = <<>>
    /\ [i \in 1..Len(conn_delivered) |-> conn_delivered[i].message] = conn_received

(***************************************************************************)
(* Claims about Net_user: restart, cancellation, concurrent give and stop  *)
(***************************************************************************)
\* the thread is running (again) after a stop_asio_thread call that stopped
\* a thread has returned, and job j was accepted since
AcceptedAfterRestart(j) ==
    /\ stop_returned
    /\ ~m_asio_thread_stop_flag
    /\ app_pc = "idle"
    /\ j \in SeqToSet(ctx_queue)
    /\ j \notin stop_pending

\* C14: after stop_asio_thread, start_asio_thread restarts the context and
\* spawns a new pump thread, and a job that give_asio_job then accepts is
\* eventually executed by that thread (unless the thread is stopped again).
RestartedThreadExecutesJobs ==
    \A j \in 1..MaxJobs :
        AcceptedAfterRestart(j) ~> (j \in SeqToSet(executed) \/ m_asio_thread_stop_flag)

\* C15: no job that was pending when stop_asio_thread returned is executed
\* afterwards, a later start_asio_thread included.
StopCancelsPendingJobs ==
    \A j \in stop_pending : j \notin SeqToSet(executed)

\* C17: with give_asio_job on one thread and stop_asio_thread on another, once
\* both calls have returned and the pump thread is gone, a job that
\* give_asio_job accepted (no exception) has been executed.
AcceptedJobExecutedAcrossStop ==
    (/\ poster_pc = "done"
     /\ poster_err = "none"
     /\ stop_returned
     /\ app_pc = "idle"
     /\ m_thread_handle = 0
     /\ \A t \in Tids : pump[t] = "none")
        => PosterJob \in SeqToSet(executed)

(***************************************************************************)
(* Claims about the chat client                                            *)
(***************************************************************************)
MainLoopLeft == main_pc \in {"set_flag", "join", "done"}

\* C16: the lines main_loop has passed to send_message are always a prefix
\* of the lines the stdin thread enqueued (each sent at most once, in order),
\* at most one is sent per loop iteration, and none is sent once main_loop
\* has observed is_connected() false.
SentIsPrefixOfEnqueued ==
    /\ [](/\ Len(chat_sent) <= Len(chat_enqueued)
          /\ chat_sent = SubSeq(chat_enqueued, 1, Len(chat_sent))
          /\ chat_iter_sent <= 1)
    /\ [][MainLoopLeft => chat_sent' = chat_sent]_vars

\* two lines were sent while a third was already enqueued behind them
SentIsPrefixOfEnqueuedWitness ==
    /\ Len(chat_sent) >= 2
    /\ Len(chat_enqueued) > Len(chat_sent)
    /\ chat_iter_sent = 1

\* C19: main_loop never calls pop_front on an empty outgoing deque.
PopFrontNeverOnEmpty ==
    main_pc = "pop" => ~deque_empty(chat_messages)

\* main_loop is about to pop for the second time while the stdin thread is
\* about to push
PopFrontNeverOnEmptyWitness ==
    /\ main_pc = "pop"
    /\ Len(chat_sent) >= 1
    /\ send_pc = "push"

\* C20: once main has set send_thread_exit_flag, the stdin thread needs no
\* further line of input and enqueues no further message: no line typed
\* after the flag was set is ever enqueued.
NoEnqueueAfterExitFlag ==
    chat_flag => \A i \in 1..Len(chat_enqueued) : chat_enqueued[i] <= chat_typed_at_flag

====
